---- MODULE Spec2Model ----
(***************************************************************************)
(* A model of utils_nlp/dataset/dac.py: the cached download of the Arabic  *)
(* classification dataset (load_pandas_df), the split / sub-sample /       *)
(* preprocess pipeline (load_dataset) and the label vocabulary             *)
(* (label_ids_to_names, get_label_names).                                  *)
(*                                                                         *)
(* Floats are fixed point with two decimals: 1.0 is Unit = 100, 0.25 is    *)
(* 25.  Every fraction the model draws is a multiple of 0.25, which binary *)
(* floating point represents exactly, so the integer arithmetic below is   *)
(* the arithmetic the program performs.                                    *)
(***************************************************************************)
EXTENDS Integers, Sequences, FiniteSets, TLC

VARIABLES
    \* ---- the remote archive and the on-disk cache directory
    raw,                 \* rows of the remote CSV, in file order
    zip_file,            \* state of <cache>/arabic_dataset_classifiction.csv.zip
    csv_file,            \* state of <cache>/arabic_dataset_classifiction.csv
    downloads,           \* times the archive was fetched
    extracts,            \* times extract_zip was invoked
    \* ---- one call of load_dataset
    pc,                  \* position in load_dataset
    args,                \* the arguments as the caller passed them
    test_fraction,       \* local: reassigned at line 126
    train_sample_ratio,  \* local: reassigned at line 135
    test_sample_ratio,   \* local: reassigned at line 142
    all_df,              \* local: row ids of the table (raw positions)
    train_df,            \* local
    test_df,             \* local
    split_train,         \* what train_test_split returned as train (history)
    split_test,          \* what train_test_split returned as test (history)
    processor,           \* number of Processor instances constructed
    train_dataset,       \* rows handed to processor.preprocess, or NoDataset
    test_dataset,
    steps,               \* the statements executed so far, in order (history)
    log,                 \* records sent to the logging stream
    error,               \* the exception that ended the call, or NoError
    \* ---- processes calling load_pandas_df on one cache directory
    ppc,                 \* position of each process in load_pandas_df
    num_rows,            \* the num_rows argument of each process's call
    result,              \* what each process's last call returned
    calls,               \* calls of load_pandas_df completed
    overlapped,          \* two calls have been in progress at the same time (history)
    \* ---- label vocabulary calls
    label_ids,           \* the array passed to label_ids_to_names
    label_out,           \* its outcome
    names_out,           \* the last get_label_names result
    names_calls          \* calls of get_label_names made

cacheVars == <<raw, zip_file, csv_file, downloads, extracts>>
dsVars == <<pc, args, test_fraction, train_sample_ratio, test_sample_ratio,
            all_df, train_df, test_df, split_train, split_test, processor,
            train_dataset, test_dataset, steps, log, error>>
procVars == <<ppc, num_rows, result, calls, overlapped>>
labelVars == <<label_ids, label_out, names_out, names_calls>>
vars == <<cacheVars, dsVars, procVars, labelVars>>

----------------------------------------------------------------------------
\* Bounds of the model.
MaxRows == 3
MaxIds == 3
MaxCalls == 2

\* Fixed point scale: the float 1.0.
Unit == 100
\* The default test_fraction (the value line 126 resets to).
DefaultTestFraction == 25
\* Python's None as an argument value (random_seed = None, num_rows = None).
None == -1

Procs == {1, 2}
NaN == "NaN"
\* No encoded dataset yet (never equal to a pair of equally long columns).
NoDataset == [text |-> <<>>, labels |-> <<"not built">>]
\* No call made yet.
NoResult == [status |-> "none", rows |-> <<>>]
NoOutput == [status |-> "none", value |-> <<>>]
NoError == [type |-> "none", what |-> "none", value |-> 0]

\* A raw record: text (column 0) and label (column 1), either may be missing.
Rows ==
    { [text |-> "doc", label |-> "sports"],
      [text |-> NaN, label |-> "sports"],
      [text |-> "doc", label |-> NaN] }

\* The tables the remote CSV may hold: up to MaxRows rows, at most one of them
\* without text and at most one without label, at any positions.
Missing(t, col) == { i \in DOMAIN t : t[i][col] = NaN }
Tables ==
    { t \in UNION { [1..n -> Rows] : n \in 0..MaxRows } :
        /\ Cardinality(Missing(t, "text")) <= 1
        /\ Cardinality(Missing(t, "label")) <= 1 }

TestFractions == {-25, 0, 25, 50, 100, 200}
SampleRatios == {-50, 0, 50, 75, 100, 150}
Seeds == {None, 1}

Range(s) == { s[i] : i \in DOMAIN s }
Perms(n) == { p \in [1..n -> 1..n] : \A i, j \in 1..n : p[i] = p[j] => i = j }

----------------------------------------------------------------------------
\* pd.read_csv(csv_file_path, nrows=num_rows) on a completely written file
\* (line 46): the row ids of the table, the first num_rows of them when given.
ReadCsv(nrows) ==
    IF nrows = None \/ nrows >= Len(raw)
    THEN [i \in 1..Len(raw) |-> i]
    ELSE [i \in 1..nrows |-> i]

\* all_df[all_df[text_col].isna() == False] (line 122).
DropMissingText(df) == SelectSeq(df, LAMBDA r : raw[r].text # NaN)

\* A boundary slip: 1.0 itself accepted as a test fraction.
FractionOutOfRangeOffByOne(tf) == tf < 0 \/ tf > Unit

\* The condition of line 124.
FractionOutOfRange(tf) == tf < 0 \/ tf >= Unit

\* train_test_split(all_df, train_size=ts, random_state=seed), lines 128-132.
\* sklearn rejects a float train_size >= 1.0 (it must lie strictly inside
\* (0, 1)); n_train = floor(train_size * n_samples), n_test is the rest.
TrainSizeRejected(ts) == ts <= 0 \/ ts >= Unit
NTrain(ts, n) == (ts * n) \div Unit
\* An empty train set is an error from scikit-learn 0.21 on and an empty
\* partition before: both outcomes are possible builds.
EmptyTrainOutcomes == {"raise", "empty"}
\* The shuffle: random_state=None draws any permutation, an integer seed
\* always the same one.
SeededPerm(n, seed) == [i \in 1..n |-> ((i - 1 + seed) % n) + 1]
Shuffles(n, seed) == IF seed = None THEN Perms(n) ELSE {SeededPerm(n, seed)}
\* ShuffleSplit: the first n_test shuffled rows are test, the next n_train train.
TestPart(df, ntrain, p) == [i \in 1..(Len(df) - ntrain) |-> df[p[i]]]
TrainPart(df, ntrain, p) == [i \in 1..ntrain |-> df[p[Len(df) - ntrain + i]]]

\* A lax validation: only ratios below -1.0 are refused.
RatioNegativeLax(r) == r < -Unit

\* The conditions of lines 134/141 and 137/144.
RatioTooLarge(r) == r > Unit
RatioNegative(r) == r < 0

\* A boundary slip: a ratio of 1.0 is re-sampled (and so shuffled) too.
SubsampledAlways(r) == r <= Unit

\* The conditions of lines 148 and 150.
Subsampled(r) == r < Unit

\* df.sample(frac=r): round(frac * len(df)) rows (Python's round: half to
\* even), drawn without replacement in random order (lines 149, 151).
RoundHalfEven(num, den) ==
    LET q == num \div den
        rem == num % den
    IN  IF 2 * rem < den THEN q
        ELSE IF 2 * rem > den THEN q + 1
        ELSE IF q % 2 = 0 THEN q ELSE q + 1
SampleSize(r, n) == RoundHalfEven(r * n, Unit)
\* Sampling with replacement (replace=True): rows may repeat.
SamplesWithReplacement(df, r) ==
    { [i \in 1..SampleSize(r, Len(df)) |-> df[p[i]]] :
        p \in [1..Len(df) -> 1..Len(df)] }
Samples(df, r) ==
    { [i \in 1..SampleSize(r, Len(df)) |-> df[p[i]]] : p \in Perms(Len(df)) }
\* numpy's choice(0, size=0) raises before 1.16 and returns nothing after.
EmptySampleOutcomes == {"raise", "empty"}

Warning(what, v) == [level |-> "warning", what |-> what, value |-> v]
Error(what, v) == [level |-> "error", what |-> what, value |-> v]
ValueError(what, v) == [type |-> "ValueError", what |-> what, value |-> v]

\* Leaving load_dataset by an exception.
Raise(e) ==
    /\ pc' = "raised"
    /\ error' = e

----------------------------------------------------------------------------
\* The caller invokes load_dataset (lines 49-59).
Call(tf, seed, trs, tes) ==
    /\ pc = "idle"
    /\ pc' = "load"
    /\ args' = [test_fraction |-> tf, random_seed |-> seed,
                train_sample_ratio |-> trs, test_sample_ratio |-> tes]
    /\ test_fraction' = tf
    /\ train_sample_ratio' = trs
    /\ test_sample_ratio' = tes
    /\ UNCHANGED <<all_df, train_df, test_df, split_train, split_test, processor,
                   train_dataset, test_dataset, steps, log, error>>
    /\ UNCHANGED <<cacheVars, procVars, labelVars>>

\* all_df = load_pandas_df(local_cache_path=local_path, num_rows=None),
\* lines 112-115 with the whole of lines 38-46.
LoadRaw ==
    /\ pc = "load"
    /\ downloads' = IF zip_file = "absent" THEN downloads + 1 ELSE downloads
    /\ zip_file' = "complete"
    /\ extracts' = IF csv_file = "absent" THEN extracts + 1 ELSE extracts
    /\ csv_file' = "complete"
    /\ all_df' = ReadCsv(None)
    /\ steps' = Append(steps, "load")
    /\ pc' = "filter"
    /\ UNCHANGED <<raw, args, test_fraction, train_sample_ratio, test_sample_ratio,
                   train_df, test_df, split_train, split_test, processor,
                   train_dataset, test_dataset, log, error>>
    /\ UNCHANGED <<procVars, labelVars>>

\* Lines 117-122.
FilterRows ==
    /\ pc = "filter"
    /\ all_df' = DropMissingText(all_df)
    /\ steps' = Append(steps, "filter")
    /\ pc' = "check_fraction"
    /\ UNCHANGED <<args, test_fraction, train_sample_ratio, test_sample_ratio,
                   train_df, test_df, split_train, split_test, processor,
                   train_dataset, test_dataset, log, error>>
    /\ UNCHANGED <<cacheVars, procVars, labelVars>>

\* Lines 124-126.
CheckFraction ==
    /\ pc = "check_fraction"
    /\ IF FractionOutOfRange(test_fraction)
       THEN /\ log' = Append(log, Warning("test_fraction", test_fraction))
            /\ test_fraction' = DefaultTestFraction
       ELSE UNCHANGED <<log, test_fraction>>
    /\ steps' = Append(steps, "check_fraction")
    /\ pc' = "split"
    /\ UNCHANGED <<args, train_sample_ratio, test_sample_ratio, all_df,
                   train_df, test_df, split_train, split_test, processor,
                   train_dataset, test_dataset, error>>
    /\ UNCHANGED <<cacheVars, procVars, labelVars>>

\* The train ratio validated ahead of the split (short-circuiting the work).
SplitValidatingFirst ==
    /\ pc = "split"
    /\ IF RatioNegative(train_sample_ratio)
       THEN /\ steps' = Append(steps, "check_train_ratio")
            /\ Raise(ValueError("train_sample_ratio", train_sample_ratio))
            /\ UNCHANGED <<train_df, test_df, split_train, split_test>>
       ELSE /\ steps' = Append(steps, "split")
            /\ \E p \in Shuffles(Len(all_df), args.random_seed) :
                  /\ train_df' = TrainPart(all_df, NTrain(Unit - test_fraction, Len(all_df)), p)
                  /\ test_df' = TestPart(all_df, NTrain(Unit - test_fraction, Len(all_df)), p)
            /\ split_train' = train_df'
            /\ split_test' = test_df'
            /\ pc' = "check_train_ratio"
            /\ UNCHANGED error
    /\ UNCHANGED <<args, test_fraction, train_sample_ratio, test_sample_ratio,
                   all_df, processor, train_dataset, test_dataset, log>>
    /\ UNCHANGED <<cacheVars, procVars, labelVars>>

\* Lines 128-132.
Split ==
    /\ pc = "split"
    /\ steps' = Append(steps, "split")
    /\ LET ts == Unit - test_fraction
           n == Len(all_df)
           ntrain == NTrain(ts, n)
       IN  \/ /\ TrainSizeRejected(ts)
              /\ Raise(ValueError("train_size", ts))
              /\ UNCHANGED <<train_df, test_df, split_train, split_test>>
           \/ /\ ~TrainSizeRejected(ts)
              /\ ntrain = 0
              /\ "raise" \in EmptyTrainOutcomes
              /\ Raise(ValueError("empty train set", ts))
              /\ UNCHANGED <<train_df, test_df, split_train, split_test>>
           \/ /\ ~TrainSizeRejected(ts)
              /\ ntrain = 0 => "empty" \in EmptyTrainOutcomes
              /\ \E p \in Shuffles(n, args.random_seed) :
                    /\ train_df' = TrainPart(all_df, ntrain, p)
                    /\ test_df' = TestPart(all_df, ntrain, p)
              /\ split_train' = train_df'
              /\ split_test' = test_df'
              /\ pc' = "check_train_ratio"
              /\ UNCHANGED error
    /\ UNCHANGED <<args, test_fraction, train_sample_ratio, test_sample_ratio,
                   all_df, processor, train_dataset, test_dataset, log>>
    /\ UNCHANGED <<cacheVars, procVars, labelVars>>

\* Lines 134-139.
CheckTrainRatio ==
    /\ pc = "check_train_ratio"
    /\ steps' = Append(steps, "check_train_ratio")
    /\ IF RatioTooLarge(train_sample_ratio)
       THEN /\ train_sample_ratio' = Unit
            /\ log' = Append(log, Warning("train_sample_ratio", Unit))
            /\ pc' = "check_test_ratio"
            /\ UNCHANGED error
       ELSE IF RatioNegative(train_sample_ratio)
       THEN /\ log' = Append(log, Error("train_sample_ratio", train_sample_ratio))
            /\ Raise(ValueError("train_sample_ratio", train_sample_ratio))
            /\ UNCHANGED train_sample_ratio
       ELSE /\ pc' = "check_test_ratio"
            /\ UNCHANGED <<train_sample_ratio, log, error>>
    /\ UNCHANGED <<args, test_fraction, test_sample_ratio, all_df, train_df,
                   test_df, split_train, split_test, processor,
                   train_dataset, test_dataset>>
    /\ UNCHANGED <<cacheVars, procVars, labelVars>>

\* Lines 141-146.
CheckTestRatio ==
    /\ pc = "check_test_ratio"
    /\ steps' = Append(steps, "check_test_ratio")
    /\ IF RatioTooLarge(test_sample_ratio)
       THEN /\ test_sample_ratio' = Unit
            /\ log' = Append(log, Warning("test_sample_ratio", Unit))
            /\ pc' = "sample_train"
            /\ UNCHANGED error
       ELSE IF RatioNegative(test_sample_ratio)
       THEN /\ log' = Append(log, Error("test_sample_ratio", test_sample_ratio))
            /\ Raise(ValueError("test_sample_ratio", test_sample_ratio))
            /\ UNCHANGED test_sample_ratio
       ELSE /\ pc' = "sample_train"
            /\ UNCHANGED <<test_sample_ratio, log, error>>
    /\ UNCHANGED <<args, test_fraction, train_sample_ratio, all_df, train_df,
                   test_df, split_train, split_test, processor,
                   train_dataset, test_dataset>>
    /\ UNCHANGED <<cacheVars, procVars, labelVars>>

\* Lines 148-149.
SampleTrain ==
    /\ pc = "sample_train"
    /\ steps' = Append(steps, "sample_train")
    /\ IF Subsampled(train_sample_ratio)
       THEN \/ /\ Len(train_df) = 0
               /\ "raise" \in EmptySampleOutcomes
               /\ Raise(ValueError("sample of an empty frame", train_sample_ratio))
               /\ UNCHANGED train_df
            \/ /\ Len(train_df) = 0 => "empty" \in EmptySampleOutcomes
               /\ train_df' \in Samples(train_df, train_sample_ratio)
               /\ pc' = "sample_test"
               /\ UNCHANGED error
       ELSE /\ pc' = "sample_test"
            /\ UNCHANGED <<train_df, error>>
    /\ UNCHANGED <<args, test_fraction, train_sample_ratio, test_sample_ratio,
                   all_df, test_df, split_train, split_test, processor,
                   train_dataset, test_dataset, log>>
    /\ UNCHANGED <<cacheVars, procVars, labelVars>>

\* Lines 150-151.
SampleTest ==
    /\ pc = "sample_test"
    /\ steps' = Append(steps, "sample_test")
    /\ IF Subsampled(test_sample_ratio)
       THEN \/ /\ Len(test_df) = 0
               /\ "raise" \in EmptySampleOutcomes
               /\ Raise(ValueError("sample of an empty frame", test_sample_ratio))
               /\ UNCHANGED test_df
            \/ /\ Len(test_df) = 0 => "empty" \in EmptySampleOutcomes
               /\ test_df' \in Samples(test_df, test_sample_ratio)
               /\ pc' = "processor"
               /\ UNCHANGED error
       ELSE /\ pc' = "processor"
            /\ UNCHANGED <<test_df, error>>
    /\ UNCHANGED <<args, test_fraction, train_sample_ratio, test_sample_ratio,
                   all_df, train_df, split_train, split_test, processor,
                   train_dataset, test_dataset, log>>
    /\ UNCHANGED <<cacheVars, procVars, labelVars>>

\* Line 153.
NewProcessor ==
    /\ pc = "processor"
    /\ processor' = processor + 1
    /\ steps' = Append(steps, "processor")
    /\ pc' = "preprocess_train"
    /\ UNCHANGED <<args, test_fraction, train_sample_ratio, test_sample_ratio,
                   all_df, train_df, test_df, split_train, split_test,
                   train_dataset, test_dataset, log, error>>
    /\ UNCHANGED <<cacheVars, procVars, labelVars>>

\* processor.preprocess(text=df[text_col], labels=df[label_col], ...): the
\* encoded dataset is represented by the two columns it was built from.
Columns(df) ==
    [text |-> [i \in 1..Len(df) |-> raw[df[i]].text],
     labels |-> [i \in 1..Len(df) |-> raw[df[i]].label]]

\* Lines 155-159.
PreprocessTrain ==
    /\ pc = "preprocess_train"
    /\ train_dataset' = Columns(train_df)
    /\ steps' = Append(steps, "preprocess_train")
    /\ pc' = "preprocess_test"
    /\ UNCHANGED <<args, test_fraction, train_sample_ratio, test_sample_ratio,
                   all_df, train_df, test_df, split_train, split_test, processor,
                   test_dataset, log, error>>
    /\ UNCHANGED <<cacheVars, procVars, labelVars>>

\* Lines 161-167.
PreprocessTest ==
    /\ pc = "preprocess_test"
    /\ test_dataset' = Columns(test_df)
    /\ steps' = Append(steps, "preprocess_test")
    /\ pc' = "returned"
    /\ UNCHANGED <<args, test_fraction, train_sample_ratio, test_sample_ratio,
                   all_df, train_df, test_df, split_train, split_test, processor,
                   train_dataset, log, error>>
    /\ UNCHANGED <<cacheVars, procVars, labelVars>>

NoArgs == [test_fraction |-> 0, random_seed |-> None,
           train_sample_ratio |-> 0, test_sample_ratio |-> 0]

InitCache ==
    /\ zip_file = "absent"
    /\ csv_file = "absent"
    /\ downloads = 0
    /\ extracts = 0

InitDataset ==
    /\ pc = "idle"
    /\ args = NoArgs
    /\ test_fraction = 0
    /\ train_sample_ratio = 0
    /\ test_sample_ratio = 0
    /\ all_df = <<>>
    /\ train_df = <<>>
    /\ test_df = <<>>
    /\ split_train = <<>>
    /\ split_test = <<>>
    /\ processor = 0
    /\ train_dataset = NoDataset
    /\ test_dataset = NoDataset
    /\ steps = <<>>
    /\ log = <<>>
    /\ error = NoError

InitProcs ==
    /\ ppc = [p \in Procs |-> "idle"]
    /\ num_rows = [p \in Procs |-> None]
    /\ result = [p \in Procs |-> NoResult]
    /\ calls = 0
    /\ overlapped = FALSE

InitLabels ==
    /\ label_ids = <<>>
    /\ label_out = NoOutput
    /\ names_out = <<>>
    /\ names_calls = 0

\* One call of load_dataset against an empty cache directory.
Init ==
    /\ raw \in Tables
    /\ InitCache
    /\ InitDataset
    /\ InitProcs
    /\ InitLabels

Next ==
    \/ \E tf \in TestFractions, seed \in Seeds, trs \in SampleRatios,
          tes \in SampleRatios : Call(tf, seed, trs, tes)
    \/ LoadRaw
    \/ FilterRows
    \/ CheckFraction
    \/ Split
    \/ CheckTrainRatio
    \/ CheckTestRatio
    \/ SampleTrain
    \/ SampleTest
    \/ NewProcessor
    \/ PreprocessTrain
    \/ PreprocessTest

Spec == Init /\ [][Next]_vars

----------------------------------------------------------------------------
\* load_pandas_df step by step, for callers sharing one cache directory.
\* maybe_download and extract_zip (utils_nlp/dataset/url_utils) write straight
\* to their destination paths, so a file being written is visible, partial,
\* to every other process.

NumRows == {None} \cup (0..MaxRows)
Active == { p \in Procs : ppc[p] # "idle" }
Writing(stage, p) == \E q \in Procs \ {p} : ppc[q] = stage

\* A caller enters load_pandas_df (line 30), possibly while another is inside.
StartCall(p, nrows) ==
    /\ ppc[p] = "idle"
    /\ calls + Cardinality(Active) < MaxCalls
    /\ ppc' = [ppc EXCEPT ![p] = "maybe_download"]
    /\ num_rows' = [num_rows EXCEPT ![p] = nrows]
    /\ overlapped' = (overlapped \/ Active # {})
    /\ UNCHANGED <<result, calls>>
    /\ UNCHANGED <<cacheVars, dsVars, labelVars>>

\* A caller enters load_pandas_df when no other call is in progress.
StartAlone(p, nrows) ==
    /\ Active = {}
    /\ StartCall(p, nrows)

\* maybe_download, its test `if not os.path.exists(filepath)` (line 39).
MaybeDownloadCheck(p) ==
    /\ ppc[p] = "maybe_download"
    /\ ppc' = [ppc EXCEPT ![p] =
                 IF zip_file = "absent" THEN "download_open" ELSE "csv_check"]
    /\ UNCHANGED <<num_rows, result, calls, overlapped>>
    /\ UNCHANGED <<cacheVars, dsVars, labelVars>>

\* maybe_download: the request is made and the archive opened for writing.
DownloadOpen(p) ==
    /\ ppc[p] = "download_open"
    /\ downloads' = downloads + 1
    /\ zip_file' = "partial"
    /\ ppc' = [ppc EXCEPT ![p] = "download_write"]
    /\ UNCHANGED <<raw, csv_file, extracts>>
    /\ UNCHANGED <<num_rows, result, calls, overlapped>>
    /\ UNCHANGED <<dsVars, labelVars>>

\* maybe_download: the last block is written and the file closed.
DownloadFinish(p) ==
    /\ ppc[p] = "download_write"
    /\ zip_file' = IF Writing("download_write", p) THEN "partial" ELSE "complete"
    /\ ppc' = [ppc EXCEPT ![p] = "csv_check"]
    /\ UNCHANGED <<raw, csv_file, downloads, extracts>>
    /\ UNCHANGED <<num_rows, result, calls, overlapped>>
    /\ UNCHANGED <<dsVars, labelVars>>

\* The test of line 44 dropped: every call extracts the archive again.
CsvCheckAlwaysExtract(p) ==
    /\ ppc[p] = "csv_check"
    /\ ppc' = [ppc EXCEPT ![p] = "extract_open"]
    /\ UNCHANGED <<num_rows, result, calls, overlapped>>
    /\ UNCHANGED <<cacheVars, dsVars, labelVars>>

\* `if not os.path.exists(csv_file_path)` (lines 41-44).
CsvCheck(p) ==
    /\ ppc[p] = "csv_check"
    /\ ppc' = [ppc EXCEPT ![p] =
                 IF csv_file = "absent" THEN "extract_open" ELSE "read_csv"]
    /\ UNCHANGED <<num_rows, result, calls, overlapped>>
    /\ UNCHANGED <<cacheVars, dsVars, labelVars>>

\* extract_zip (line 45) opens the archive: one still being written has no
\* central directory yet and is refused (BadZipFile), which ends the call;
\* otherwise the CSV is created and its extraction begins.
ExtractOpen(p) ==
    /\ ppc[p] = "extract_open"
    /\ extracts' = extracts + 1
    /\ IF zip_file = "complete"
       THEN /\ csv_file' = "partial"
            /\ ppc' = [ppc EXCEPT ![p] = "extract_write"]
            /\ UNCHANGED <<result, calls>>
       ELSE /\ result' = [result EXCEPT ![p] =
                            [status |-> "BadZipFile", rows |-> <<>>]]
            /\ ppc' = [ppc EXCEPT ![p] = "idle"]
            /\ calls' = calls + 1
            /\ UNCHANGED csv_file
    /\ UNCHANGED <<raw, zip_file, downloads>>
    /\ UNCHANGED <<num_rows, overlapped>>
    /\ UNCHANGED <<dsVars, labelVars>>

\* extract_zip: the CSV is fully written.
ExtractFinish(p) ==
    /\ ppc[p] = "extract_write"
    /\ csv_file' = IF Writing("extract_write", p) THEN "partial" ELSE "complete"
    /\ ppc' = [ppc EXCEPT ![p] = "read_csv"]
    /\ UNCHANGED <<raw, zip_file, downloads, extracts>>
    /\ UNCHANGED <<num_rows, result, calls, overlapped>>
    /\ UNCHANGED <<dsVars, labelVars>>

\* What read_csv gets from a CSV of which only the first k rows are written.
ReadPartialCsv(nrows, k) ==
    IF nrows = None \/ nrows >= k THEN [i \in 1..k |-> i] ELSE [i \in 1..nrows |-> i]
Written == 0..(IF Len(raw) = 0 THEN 0 ELSE Len(raw) - 1)

\* return pd.read_csv(csv_file_path, nrows=num_rows) (line 46).
ReadCsvFile(p) ==
    /\ ppc[p] = "read_csv"
    /\ IF csv_file = "complete"
       THEN result' = [result EXCEPT ![p] =
                         [status |-> "table", rows |-> ReadCsv(num_rows[p])]]
       ELSE \E k \in Written :
               result' = [result EXCEPT ![p] =
                            [status |-> "partial",
                             rows |-> ReadPartialCsv(num_rows[p], k)]]
    /\ ppc' = [ppc EXCEPT ![p] = "idle"]
    /\ calls' = calls + 1
    /\ UNCHANGED <<num_rows, overlapped>>
    /\ UNCHANGED <<cacheVars, dsVars, labelVars>>

Steps(p) ==
    \/ MaybeDownloadCheck(p)
    \/ DownloadOpen(p)
    \/ DownloadFinish(p)
    \/ CsvCheck(p)
    \/ ExtractOpen(p)
    \/ ExtractFinish(p)
    \/ ReadCsvFile(p)

\* Calls of load_pandas_df one after the other.
SeqNext ==
    \/ \E p \in Procs, nrows \in NumRows : StartAlone(p, nrows)
    \/ \E p \in Procs : Steps(p)

SeqSpec == Init /\ [][SeqNext]_vars

\* Calls of load_pandas_df from two processes, interleaved at will.
ConcNext ==
    \/ \E p \in Procs, nrows \in NumRows : StartCall(p, nrows)
    \/ \E p \in Procs : Steps(p)

ConcSpec == Init /\ [][ConcNext]_vars

----------------------------------------------------------------------------
\* The label vocabulary (lines 170-187).

\* Python values in a result array: a str, or None.
Str(s) == [type |-> "str", v |-> s]
PyNone == [type |-> "NoneType", v |-> "None"]

\* id2str (line 182).
id2str ==
    [i \in 0..4 |->
        CASE i = 0 -> "culture"
          [] i = 1 -> "diverse"
          [] i = 2 -> "economy"
          [] i = 3 -> "politics"
          [] i = 4 -> "sports"]

\* A lookup with a default name: id2str.get(i, "unknown").
Id2StrGetDefault(i) ==
    IF i \in DOMAIN id2str THEN Str(id2str[i]) ELSE Str("unknown")
\* id2str.get (line 183): None for an unknown id, no error.
Id2StrGet(i) == IF i \in DOMAIN id2str THEN Str(id2str[i]) ELSE PyNone

\* np.vectorize without otypes takes the output dtype from the first element's
\* result: unicode ('U') for a str, object ('O') for None.  Converting an
\* object to unicode is str(x), so None becomes the string 'None'.
OType(first) == IF first.type = "str" THEN "U" ELSE "O"
Cast(x, otype) == IF otype = "U" THEN Str(x.v) ELSE x

\* np.vectorize(id2str.get)(label_ids), line 183: a size 0 input raises
\* ValueError (the dtype cannot be determined), else the elementwise result.
Vectorize(ids) ==
    IF Len(ids) = 0
    THEN [status |-> "ValueError", value |-> <<>>]
    ELSE [status |-> "array",
          value |-> [i \in DOMAIN ids |->
                        Cast(Id2StrGet(ids[i]), OType(Id2StrGet(ids[1])))]]

\* The ids a caller may pass: the five labels and one id on either side.
Ids == -1..5
IdArrays == UNION { [1..n -> Ids] : n \in 0..MaxIds }

\* label_ids_to_names(label_ids), lines 170-183, applied to the caller's array.
LabelIdsToNames ==
    /\ label_out = NoOutput
    /\ label_out' = Vectorize(label_ids)
    /\ UNCHANGED <<label_ids, names_out, names_calls>>
    /\ UNCHANGED <<cacheVars, dsVars, procVars>>

\* The list of line 187.
LabelNames == <<"culture", "diverse", "economy", "politics", "sports">>

\* get_label_names(), lines 186-187.
GetLabelNames ==
    /\ names_calls < MaxCalls
    /\ names_out' = LabelNames
    /\ names_calls' = names_calls + 1
    /\ UNCHANGED <<label_ids, label_out>>
    /\ UNCHANGED <<cacheVars, dsVars, procVars>>

\* A caller holding any array of ids, before its calls.
LabelInit ==
    /\ raw = <<>>
    /\ InitCache
    /\ InitDataset
    /\ InitProcs
    /\ label_ids \in IdArrays
    /\ label_out = NoOutput
    /\ names_out = <<>>
    /\ names_calls = 0

LabelNext ==
    \/ LabelIdsToNames
    \/ GetLabelNames

LabelSpec == LabelInit /\ [][LabelNext]_vars

----------------------------------------------------------------------------
\* Properties of load_dataset, checked under Spec.

IsPrefix(s, t) == Len(s) <= Len(t) /\ \A i \in DOMAIN s : s[i] = t[i]
Logged(rec) == \E i \in DOMAIN log : log[i] = rec
Distinct(s) == \A i, j \in DOMAIN s : s[i] = s[j] => i = j
Abs(x) == IF x < 0 THEN -x ELSE x
\* Positions of load_dataset after both ratio validations (lines 148-167).
PastValidation ==
    {"sample_train", "sample_test", "processor", "preprocess_train",
     "preprocess_test", "returned"}
RatioArgs == {"train_sample_ratio", "test_sample_ratio"}
SplitFailures == {"train_size", "empty train set"}
\* The raw rows whose text is present.
TextRows == { i \in DOMAIN raw : raw[i].text # NaN }

\* C1: a call with a negative train_sample_ratio or test_sample_ratio never
\* gets past the ratio validation and never returns a dataset; once the split
\* has succeeded it ends in a ValueError, logged as an error, that carries the
\* negative ratio the caller passed.
C1_NegativeRatioRaises ==
    (args.train_sample_ratio < 0 \/ args.test_sample_ratio < 0) =>
        /\ pc \notin PastValidation
        /\ train_dataset = NoDataset
        /\ test_dataset = NoDataset
        /\ pc = "check_test_ratio" => args.train_sample_ratio >= 0
        /\ (pc = "raised" /\ error.what \notin SplitFailures) =>
              /\ error.type = "ValueError"
              /\ error.what \in RatioArgs
              /\ error.value < 0
              /\ error.value = args[error.what]
              /\ log[Len(log)] = Error(error.what, error.value)

C1_Witness ==
    /\ pc = "raised"
    /\ args.train_sample_ratio = 150
    /\ args.test_sample_ratio = -50
    /\ error = ValueError("test_sample_ratio", -50)

\* C2: a test_fraction below 0 or at least 1.0 does not fail the call: a
\* warning is logged, the fraction becomes 0.25 and the split has the train
\* proportion 0.75 (with a seed: exactly the partitions of a call with
\* test_fraction = 0.25); a test_fraction inside [0, 1) is used unchanged and
\* no warning about it is logged.
C2_FractionResetToDefault ==
    "check_fraction" \in Range(steps) =>
        IF args.test_fraction < 0 \/ args.test_fraction >= 100
        THEN /\ test_fraction = 25
             /\ Logged(Warning("test_fraction", args.test_fraction))
             /\ error.what # "train_size"
             /\ "check_train_ratio" \in Range(steps) =>
                   /\ Len(split_train) = (75 * Len(all_df)) \div 100
                   /\ Len(split_test) = Len(all_df) - Len(split_train)
                   /\ args.random_seed # None =>
                        LET p == SeededPerm(Len(all_df), args.random_seed)
                        IN  /\ split_train = TrainPart(all_df, Len(split_train), p)
                            /\ split_test = TestPart(all_df, Len(split_train), p)
        ELSE /\ test_fraction = args.test_fraction
             /\ \A i \in DOMAIN log : log[i].what # "test_fraction"
             /\ "check_train_ratio" \in Range(steps) =>
                   Len(split_train) =
                       ((100 - args.test_fraction) * Len(all_df)) \div 100

C2_Witness ==
    /\ pc = "returned"
    /\ args.test_fraction = 100
    /\ args.random_seed # None
    /\ Len(split_train) = 2
    /\ Len(split_test) = 1

\* C3: for every test_fraction in [0, 1) and both sample ratios 1.0, on a
\* table with at least two rows of text, the call hands the preprocessor two
\* disjoint partitions whose union is the set of rows with text present
\* (rows with a missing label included).
C3_PartitionsCoverFilteredRows ==
    ( /\ pc \in {"returned", "raised"}
      /\ args.test_fraction >= 0
      /\ args.test_fraction < 100
      /\ args.train_sample_ratio = 100
      /\ args.test_sample_ratio = 100
      /\ Cardinality(TextRows) >= 2 ) =>
        /\ train_dataset # NoDataset
        /\ test_dataset # NoDataset
        /\ Range(train_df) \cap Range(test_df) = {}
        /\ Range(train_df) \cup Range(test_df) = TextRows
        /\ Len(train_df) + Len(test_df) = Cardinality(TextRows)

\* C4: a sample ratio above 1.0 is clamped to 1.0 with a warning and raises
\* nothing, and a ratio of 1.0 (given or clamped) leaves its partition as the
\* split produced it: same rows, same order, and those are the rows
\* preprocess receives.
C4_RatioOneKeepsPartition ==
    /\ (pc \in PastValidation /\ args.train_sample_ratio > 100) =>
          /\ train_sample_ratio = 100
          /\ Logged(Warning("train_sample_ratio", 100))
    /\ (pc \in PastValidation /\ args.test_sample_ratio > 100) =>
          /\ test_sample_ratio = 100
          /\ Logged(Warning("test_sample_ratio", 100))
    /\ (pc = "raised" /\ error.what \in RatioArgs) => args[error.what] <= 100
    /\ (pc \in PastValidation /\ args.train_sample_ratio >= 100) =>
          /\ train_df = split_train
          /\ train_dataset # NoDataset => train_dataset = Columns(split_train)
    /\ (pc \in PastValidation /\ args.test_sample_ratio >= 100) =>
          /\ test_df = split_test
          /\ test_dataset # NoDataset => test_dataset = Columns(split_test)

C4_Witness ==
    /\ pc = "returned"
    /\ args.train_sample_ratio = 150
    /\ args.test_sample_ratio = 100
    /\ Len(split_train) = 2
    /\ train_df = split_train
    /\ Logged(Warning("train_sample_ratio", 100))

\* The size, membership and distinctness a sub-sample of `part` at ratio r
\* (0 <= r < 1.0) must have: r * n rows to the nearest integer, exactly
\* r * n when that is an integer, all of them different rows of `part`.
IsSubsample(df, part, r) ==
    /\ 2 * Abs(100 * Len(df) - r * Len(part)) <= 100
    /\ (r * Len(part)) % 100 = 0 => 100 * Len(df) = r * Len(part)
    /\ Range(df) \subseteq Range(part)
    /\ Distinct(df)

\* C5: a sample ratio r with 0 <= r < 1.0 makes the partition handed to
\* preprocess a sample without replacement of round(r * n) rows of the
\* split's partition (none for r = 0); the train ratio leaves the test
\* partition alone and the test ratio the train partition.
C5_SubsampleSize ==
    /\ (train_dataset # NoDataset /\ args.train_sample_ratio < 100) =>
          /\ IsSubsample(train_df, split_train, args.train_sample_ratio)
          /\ Len(train_dataset.text) = Len(train_df)
          /\ args.test_sample_ratio >= 100 => test_df = split_test
    /\ (test_dataset # NoDataset /\ args.test_sample_ratio < 100) =>
          /\ IsSubsample(test_df, split_test, args.test_sample_ratio)
          /\ Len(test_dataset.text) = Len(test_df)
          /\ args.train_sample_ratio >= 100 => train_df = split_train

C5_Witness ==
    /\ pc = "returned"
    /\ args.train_sample_ratio = 50
    /\ args.test_sample_ratio = 100
    /\ Len(split_train) = 2
    /\ Len(train_df) = 1
    /\ test_df = split_test

\* The statements of load_dataset in source order.
Order ==
    <<"load", "filter", "check_fraction", "split", "check_train_ratio",
      "check_test_ratio", "sample_train", "sample_test", "processor",
      "preprocess_train", "preprocess_test">>

\* C9: the statements run in source order; when a negative ratio raises, the
\* archive has been downloaded, the rows filtered and split, and nothing has
\* been sub-sampled, no Processor constructed and preprocess never invoked.
C9_StepOrder ==
    /\ IsPrefix(steps, Order)
    /\ processor > 0 => "sample_test" \in Range(steps)
    /\ train_dataset # NoDataset => processor = 1
    /\ test_dataset # NoDataset => train_dataset # NoDataset
    /\ (pc = "raised" /\ error.what \in RatioArgs) =>
          /\ IsPrefix(<<"load", "filter", "check_fraction", "split">>, steps)
          /\ downloads = 1
          /\ zip_file = "complete"
          /\ Range(all_df) = TextRows
          /\ Range(split_train) \cup Range(split_test) = TextRows
          /\ train_df = split_train
          /\ test_df = split_test
          /\ "sample_train" \notin Range(steps)
          /\ processor = 0
          /\ train_dataset = NoDataset
          /\ test_dataset = NoDataset

C9_Witness ==
    /\ pc = "raised"
    /\ error = ValueError("train_sample_ratio", -50)
    /\ Len(split_train) = 2
    /\ Len(split_test) = 1
    /\ downloads = 1
    /\ processor = 0

----------------------------------------------------------------------------
\* Properties of load_pandas_df, checked under SeqSpec and ConcSpec.

Min(a, b) == IF a < b THEN a ELSE b
\* The first n rows of the remote table, all of them for None.
FirstRows(nrows) ==
    [i \in 1..(IF nrows = None THEN Len(raw) ELSE Min(nrows, Len(raw))) |-> i]

\* C6: over calls made one after the other on a cache directory that starts
\* empty, the archive is downloaded once and extracted once in total, however
\* many calls follow, and every call returns the parsed table (cut to
\* num_rows).
C6_DownloadAndExtractOnce ==
    /\ downloads <= 1
    /\ extracts <= 1
    /\ calls >= 1 =>
          /\ downloads = 1
          /\ extracts = 1
          /\ zip_file = "complete"
          /\ csv_file = "complete"
    /\ \A p \in Procs :
          /\ result[p].status \in {"none", "table"}
          /\ (ppc[p] = "idle" /\ result[p].status = "table") =>
                result[p].rows = FirstRows(num_rows[p])

C6_Witness ==
    /\ calls = 2
    /\ downloads = 1
    /\ extracts = 1
    /\ \A p \in Procs : result[p].status = "table"
    /\ \E p \in Procs : num_rows[p] = 1 /\ Len(result[p].rows) = 1
    /\ Len(raw) = 3

\* C10: with two processes on one cache directory nothing orders one's
\* existence test against the other's write: a second download, a second
\* extraction, a read of a partly written CSV and an extraction of a partly
\* written ZIP all occur (the witness reaches the first three at once), and
\* they occur only in runs where two calls were in progress at the same time.
C10_RaceNeedsOverlap ==
    /\ downloads <= calls + Cardinality(Active)
    /\ extracts <= calls + Cardinality(Active)
    /\ ( \/ downloads > 1
         \/ extracts > 1
         \/ \E p \in Procs : result[p].status \in {"partial", "BadZipFile"} )
       => overlapped

C10_Witness ==
    /\ downloads = 2
    /\ extracts = 2
    /\ \E p \in Procs :
          /\ result[p].status = "partial"
          /\ Len(result[p].rows) < Len(raw)
          /\ num_rows[p] = None

----------------------------------------------------------------------------
\* Properties of the label vocabulary, checked under LabelSpec.

InRange(i) == i \in 0..4
Called == label_out.status # "none"

\* C7: label_ids_to_names maps every id 0..4 to get_label_names()[id], one to
\* one, position by position, so that the result has the shape of the input
\* collection; get_label_names returns the same five names on every call.
C7_ElementwiseNames ==
    /\ names_out \in {<<>>, <<"culture", "diverse", "economy", "politics", "sports">>}
    /\ (Called /\ \A i \in DOMAIN label_ids : InRange(label_ids[i])) =>
          /\ label_out.status = "array"
          /\ Len(label_out.value) = Len(label_ids)
          /\ \A i \in DOMAIN label_ids :
                label_out.value[i] = Str(LabelNames[label_ids[i] + 1])
          /\ \A i, j \in DOMAIN label_ids :
                label_out.value[i] = label_out.value[j] => label_ids[i] = label_ids[j]

\* C8 as claimed: a collection holding an id outside 0..4 ends the call in a
\* lookup error, and no array is returned.
C8_OutOfRangeFails ==
    (Called /\ \E i \in DOMAIN label_ids : ~InRange(label_ids[i])) =>
        label_out.status \notin {"array"}

\* C8 as amended: a collection holding an id outside 0..4 raises nothing; the
\* result is an array of the input's shape whose in-range positions hold
\* their names and whose out-of-range positions hold a substitute: None when
\* the first element is out of range, the string 'None' otherwise.
C8_OutOfRangeGivesNone ==
    (Called /\ \E i \in DOMAIN label_ids : ~InRange(label_ids[i])) =>
        /\ label_out.status = "array"
        /\ Len(label_out.value) = Len(label_ids)
        /\ \A i \in DOMAIN label_ids :
              label_out.value[i] =
                  IF InRange(label_ids[i]) THEN Str(LabelNames[label_ids[i] + 1])
                  ELSE IF InRange(label_ids[1]) THEN Str("None")
                  ELSE PyNone

C8_Witness ==
    /\ label_ids = <<0, 5, 4>>
    /\ label_out = [status |-> "array",
                    value |-> <<Str("culture"), Str("None"), Str("sports")>>]

====
